---- MODULE Spec2Model ----
(***************************************************************************)
(* InsurLit: a Streamlit session (app.py) that extracts the text of an     *)
(* uploaded policy (document_processing.py), scores it (readability.py),   *)
(* asks a generative model for a summary and for answers                   *)
(* (gemini_integration.py) and exports a report (pdf_export.py).           *)
(*                                                                         *)
(* Text is a sequence of tokens.  A token is one character ("{", ":", a    *)
(* quote, a backslash, a blank, a line feed) or a run of characters none   *)
(* of which is special to the code that reads it ("coverage_details",      *)
(* "json", "lease agreement").  Python values are tagged records           *)
(* [t |-> tag, v |-> payload].                                             *)
(***************************************************************************)
EXTENDS Integers, Sequences, FiniteSets, TLC

\* ------------------------------------------------------------ Python values

PyNone == [t |-> "none", v |-> <<>>]
PyStr(s) == [t |-> "str", v |-> s]
PyList(items) == [t |-> "list", v |-> items]
PyDict(f) == [t |-> "dict", v |-> f]
PyNum(s) == [t |-> "num", v |-> s]
PyLit(s) == [t |-> "lit", v |-> s]

PyFloat(n) == [t |-> "float", v |-> n]

\* bool(x)
Truthy(x) ==
  CASE x.t = "none" -> FALSE
    [] x.t = "str" -> x.v # <<>>
    [] x.t = "list" -> x.v # <<>>
    [] x.t = "dict" -> DOMAIN x.v # {}
    [] x.t = "num" -> x.v # <<"0">>
    [] x.t = "float" -> x.v # 0
    [] x.t = "lit" -> x.v = <<"true">>
    [] OTHER -> TRUE

\* ------------------------------------------------------------ characters

QUOTE == "\""
BACKSLASH == "\\"
\* the run of three backquote characters that opens or closes a code fence
FENCE == "<fence>"
SP == " "
NL == "\n"

Whitespace == {SP, NL}
Digits == {"0", "5"}
Literals == {"null", "true", "false"}

\* ------------------------------------------------------------ str methods

Concat(a, b) == a \o b

\* pat occurs in s at position i
OccursAt(s, pat, i) ==
  /\ i >= 1
  /\ i + Len(pat) - 1 <= Len(s)
  /\ \A k \in 1..Len(pat) : s[i + k - 1] = pat[k]

\* str.find, 1-based; 0 when pat does not occur at or after position from
RECURSIVE Find(_, _, _)
Find(s, pat, from) ==
  IF from + Len(pat) - 1 > Len(s) THEN 0
  ELSE IF OccursAt(s, pat, from) THEN from
  ELSE Find(s, pat, from + 1)

\* pat in s
Contains(s, pat) == Find(s, pat, 1) # 0

\* s.startswith(pat)
StartsWith(s, pat) == OccursAt(s, pat, 1)

\* s.split(pat), the list of pieces
RECURSIVE Split(_, _)
Split(s, pat) ==
  LET i == Find(s, pat, 1) IN
  IF i = 0 THEN <<s>>
  ELSE <<SubSeq(s, 1, i - 1)>> \o Split(SubSeq(s, i + Len(pat), Len(s)), pat)

\* s.replace(pat, by)
RECURSIVE Replace(_, _, _)
Replace(s, pat, by) ==
  LET i == Find(s, pat, 1) IN
  IF i = 0 THEN s
  ELSE SubSeq(s, 1, i - 1) \o by \o Replace(SubSeq(s, i + Len(pat), Len(s)), pat, by)

RECURSIVE LStrip(_)
LStrip(s) ==
  IF s # <<>> /\ Head(s) \in Whitespace THEN LStrip(Tail(s)) ELSE s

RECURSIVE RStrip(_)
RStrip(s) ==
  IF s # <<>> /\ s[Len(s)] \in Whitespace THEN RStrip(SubSeq(s, 1, Len(s) - 1)) ELSE s

\* s.strip()
Strip(s) == RStrip(LStrip(s))

\* the lower-case form of a token
LowerTok(c) ==
  CASE c = "YES" -> "yes"
    [] c = "Yes" -> "yes"
    [] c = "No" -> "no"
    [] c = "Lease Agreement" -> "lease agreement"
    [] OTHER -> c

\* s.lower()
Lower(s) == [i \in 1..Len(s) |-> LowerTok(s[i])]

\* ------------------------------------------------------------ json.loads

Fail(i) == [ok |-> FALSE, val |-> PyNone, pos |-> i]
Got(val, i) == [ok |-> TRUE, val |-> val, pos |-> i]

RECURSIVE SkipWs(_, _)
SkipWs(s, i) ==
  IF i <= Len(s) /\ s[i] \in Whitespace THEN SkipWs(s, i + 1) ELSE i

\* the character an escape sequence stands for; "" when the escape is invalid
Unescape(c) ==
  CASE c = QUOTE -> QUOTE
    [] c = BACKSLASH -> BACKSLASH
    [] c = "/" -> "/"
    [] c = "n" -> NL
    [] OTHER -> ""

\* the body of a string, from the character after the opening quote
RECURSIVE ScanString(_, _, _)
ScanString(s, j, acc) ==
  IF j > Len(s) THEN Fail(j)
  ELSE IF s[j] = QUOTE THEN Got(PyStr(acc), j + 1)
  ELSE IF s[j] = BACKSLASH THEN
    IF j + 1 > Len(s) \/ Unescape(s[j + 1]) = "" THEN Fail(j)
    ELSE ScanString(s, j + 2, Append(acc, Unescape(s[j + 1])))
  ELSE IF s[j] = NL THEN Fail(j)
  ELSE ScanString(s, j + 1, Append(acc, s[j]))

RECURSIVE ScanNumber(_, _, _)
ScanNumber(s, j, acc) ==
  IF j <= Len(s) /\ s[j] \in Digits /\ acc # <<"0">>
  THEN ScanNumber(s, j + 1, Append(acc, s[j]))
  ELSE Got(PyNum(acc), j)

\* d[key] = val
DictSet(d, key, val) ==
  [x \in (DOMAIN d) \cup {key} |-> IF x = key THEN val ELSE d[x]]

\* One recursive-descent parser in three modes: "value" reads the value that
\* starts at i; "array" reads the items of an array from i on, acc the items
\* read so far; "object" reads the members of an object, acc the dict so far.
RECURSIVE Parse(_, _, _, _)
Parse(mode, s, i, acc) ==
  IF mode = "array" THEN
    LET r == Parse("value", s, i, <<>>)
        k == SkipWs(s, r.pos)
    IN IF ~r.ok \/ k > Len(s) THEN Fail(i)
       ELSE IF s[k] = "," THEN Parse("array", s, SkipWs(s, k + 1), Append(acc, r.val))
       ELSE IF s[k] = "]" THEN Got(PyList(Append(acc, r.val)), k + 1)
       ELSE Fail(k)
  ELSE IF mode = "object" THEN
    IF i > Len(s) \/ s[i] # QUOTE THEN Fail(i)
    ELSE
      LET key == ScanString(s, i + 1, <<>>)
          c == SkipWs(s, key.pos)
      IN IF ~key.ok \/ c > Len(s) \/ s[c] # ":" THEN Fail(i)
         ELSE
           LET r == Parse("value", s, SkipWs(s, c + 1), <<>>)
               k == SkipWs(s, r.pos)
           IN IF ~r.ok \/ k > Len(s) THEN Fail(i)
              ELSE IF s[k] = ","
                THEN Parse("object", s, SkipWs(s, k + 1), DictSet(acc, key.val.v, r.val))
              ELSE IF s[k] = "}" THEN Got(PyDict(DictSet(acc, key.val.v, r.val)), k + 1)
              ELSE Fail(k)
  ELSE
    IF i > Len(s) THEN Fail(i)
    ELSE IF s[i] = QUOTE THEN ScanString(s, i + 1, <<>>)
    ELSE IF s[i] = "{" THEN
      LET j == SkipWs(s, i + 1) IN
      IF j <= Len(s) /\ s[j] = "}" THEN Got(PyDict(<<>>), j + 1)
      ELSE Parse("object", s, j, <<>>)
    ELSE IF s[i] = "[" THEN
      LET j == SkipWs(s, i + 1) IN
      IF j <= Len(s) /\ s[j] = "]" THEN Got(PyList(<<>>), j + 1)
      ELSE Parse("array", s, j, <<>>)
    ELSE IF s[i] \in Digits THEN ScanNumber(s, i, <<>>)
    ELSE IF s[i] \in Literals THEN Got(PyLit(<<s[i]>>), i + 1)
    ELSE Fail(i)

ParseValue(s, i) == Parse("value", s, i, <<>>)

\* json.loads(s): ok is FALSE where json.JSONDecodeError is raised
JsonLoads(s) ==
  LET r == ParseValue(s, SkipWs(s, 1)) IN
  IF r.ok /\ SkipWs(s, r.pos) > Len(s)
  THEN [ok |-> TRUE, val |-> r.val]
  ELSE [ok |-> FALSE, val |-> PyNone]

\* ------------------------------------------------------------ the model service

\* What one generate_content call does: it raises (network, authentication,
\* blocked response; msg is str(e)) or returns a response whose .text is text.
Raises(msg) == [raises |-> TRUE, text |-> <<msg>>]
Returns(text) == [raises |-> FALSE, text |-> text]
NoOutcome == [raises |-> FALSE, text |-> <<>>]

\* One observable step of a script run, in the order the steps happen.
Ev(ev, op, arg, out) == [ev |-> ev, op |-> op, arg |-> arg, out |-> out]
ModelCall(op, step, out) == Ev("call", op, step, out)

\* ------------------------------------------------------------ gemini_integration.py

VARIABLE API_KEY

K_coverage == <<"coverage_details">>
K_exclusions == <<"exclusions">>
K_deductibles == <<"deductibles">>
K_premiums == <<"premiums">>
K_claims == <<"claims_process">>
K_unusual == <<"unusual_clauses">>

expected_keys == <<K_coverage, K_exclusions, K_deductibles, K_premiums, K_claims, K_unusual>>
ExpectedKeySet == {expected_keys[i] : i \in 1..Len(expected_keys)}

\* a variant of SingleItemRecord without the five empty lists
SingleItemRecord_OnlyCoverage(item) ==
  PyDict([k \in {K_coverage} |-> PyList(<<PyStr(item)>>)])

\* {"coverage_details": [item], "exclusions": [], ..., "unusual_clauses": []}
SingleItemRecord(item) ==
  PyDict([k \in ExpectedKeySet |->
            IF k = K_coverage THEN PyList(<<PyStr(item)>>) ELSE PyList(<<>>)])

\* ------------------------------------------------------------ what the model service may answer

JStr(s) == <<QUOTE>> \o s \o <<QUOTE>>

RECURSIVE Join(_, _)
Join(parts, sep) ==
  IF parts = <<>> THEN <<>>
  ELSE IF Len(parts) = 1 THEN parts[1]
  ELSE parts[1] \o sep \o Join(Tail(parts), sep)

JArr(elems) == <<"[">> \o Join(elems, <<",", SP>>) \o <<"]">>
JMember(key, value) == JStr(key) \o <<":", SP>> \o value
JObj(members) == <<"{">> \o Join(members, <<",", NL>>) \o <<"}">>

\* U+2019, the right single quotation mark: a character outside Latin-1
RSQUO == "<U+2019>"

Liability == <<"Liability is covered up to $50,000 (Page 1).">>

\* responses of the main summary call
R_fenced ==
  <<FENCE, "json", NL>> \o
  JObj(<<JMember(K_coverage, JArr(<<JStr(Liability)>>)),
         JMember(K_exclusions, JArr(<<JStr(<<"Racing is not covered.">>)>>)),
         JMember(K_deductibles, JArr(<<>>)),
         JMember(K_premiums, JArr(<<>>)),
         JMember(K_claims, JArr(<<>>)),
         JMember(K_unusual, JArr(<<>>))>>) \o <<NL, FENCE>>
R_plainfence ==
  <<"Here is the summary:", NL, FENCE, NL>> \o
  JObj(<<JMember(K_coverage, JArr(<<JStr(Liability)>>))>>) \o <<NL, FENCE, NL>>
R_bare ==
  JObj(<<JMember(K_coverage, JArr(<<JStr(Liability)>>)),
         JMember(K_deductibles, JArr(<<JStr(<<"You pay the first $500.">>)>>))>>)
R_extra ==
  JObj(<<JMember(K_coverage, JArr(<<JStr(Liability)>>)),
         JMember(<<"notes">>, JArr(<<JStr(<<"Ask your agent.">>)>>))>>)
R_null == JObj(<<JMember(K_exclusions, <<"null">>)>>)
R_prose == <<"I could not find a policy in this text.">>
R_array == JArr(<<JStr(Liability)>>)
R_keys == JArr([i \in 1..Len(expected_keys) |-> JStr(expected_keys[i])])
R_string == JStr(Liability)
R_number == <<"5">>
R_quote ==
  JObj(<<JMember(K_coverage,
           JArr(<<JStr(<<"The ", BACKSLASH, QUOTE, "named driver", BACKSLASH, QUOTE,
                         " is covered.">>)>>))>>)
R_newline ==
  JObj(<<JMember(K_coverage,
           JArr(<<JStr(<<"Theft.", BACKSLASH, "n", "Fire.">>)>>))>>)
R_empty == <<>>
R_object == <<"{", "}">>
R_two ==
  JObj(<<JMember(K_coverage, JArr(<<JStr(Liability), JStr(<<"Theft is covered.">>)>>)),
         JMember(K_unusual, JArr(<<JStr(<<"Claims must be filed in 30 days.">>)>>))>>)
R_curly ==
  JObj(<<JMember(K_coverage, JArr(<<JStr(<<"The insurer", RSQUO, "s limit is $50,000.">>)>>))>>)

ServiceError == "503 service unavailable"

SummaryOutcomes ==
  {Returns(R_fenced), Returns(R_plainfence), Returns(R_bare), Returns(R_extra),
   Returns(R_null), Returns(R_prose), Returns(R_array), Returns(R_keys),
   Returns(R_string), Returns(R_number), Returns(R_quote), Returns(R_newline),
   Returns(R_empty), Returns(R_object), Returns(R_two), Returns(R_curly),
   Raises(ServiceError)}

\* responses of the classification call
VerdictOutcomes ==
  {Returns(<<"Yes", NL>>), Returns(<<"no", ":", SP, "Lease Agreement">>), Returns(<<>>),
   Raises(ServiceError)}

\* responses of the main question-answering call
AnswerOutcomes ==
  {Returns(<<"Yes, rental cars are covered (Page 1).">>), Raises(ServiceError)}

Preferences == {"Easy (Elementary School Level)", "Moderate (High School Level)"}

ApiKeys == {PyNone, PyStr(<<>>), PyStr(<<"key">>)}

Now == "2025-01-01 00:00"

\* ------------------------------------------------------------ the client

\* a variant of setup_gemini that only tests the key against None
setup_gemini_NoneOnly == API_KEY.t # "none"

\* os.getenv("GEMINI_API_KEY"): None when unset, else the string
\* setup_gemini(): False when the key is missing or empty
setup_gemini == Truthy(API_KEY)

\* verification_response.text.strip().lower()
VerificationResult(text) == Lower(Strip(text))

IsAffirmative(verification_result) == StartsWith(verification_result, <<"yes">>)

\* a variant of DocumentType that drops what the model detected
DocumentType_Fixed(verification_result) == <<"not an auto insurance policy">>

DocumentType(verification_result) ==
  IF Contains(verification_result, <<":">>)
  THEN Strip(Replace(verification_result, <<"no", ":">>, <<>>))
  ELSE <<"not an auto insurance policy">>

NotPolicyItem(verification_result) ==
  <<"This document appears to be ">> \o DocumentType(verification_result)
    \o <<". Please upload an auto insurance policy document.">>

NotPolicyAnswer(verification_result) ==
  <<"I cannot answer your question because this document appears to be ">>
    \o DocumentType(verification_result)
    \o <<". Please upload an auto insurance policy document.">>

\* the text between the code-fence markers, or the whole response
JsonContent(response_text) ==
  IF Contains(response_text, <<FENCE, "json">>) /\ Contains(response_text, <<FENCE>>)
  THEN Strip(Split(Split(response_text, <<FENCE, "json">>)[2], <<FENCE>>)[1])
  ELSE IF Contains(response_text, <<FENCE>>)
  THEN Strip(Split(Split(response_text, <<FENCE>>)[2], <<FENCE>>)[1])
  ELSE response_text

\* json_content.replace('\\', '\\\\')
CleanJson(json_content) == Replace(json_content, <<BACKSLASH>>, <<BACKSLASH, BACKSLASH>>)

CouldNotParse == <<"Could not generate detailed summary. Please try uploading the document again.">>

\* key in summary; raises is TRUE where Python raises TypeError
KeyIn(key, obj) ==
  CASE obj.t = "dict" -> [raises |-> FALSE, is |-> key \in DOMAIN obj.v]
    [] obj.t = "list" ->
         [raises |-> FALSE, is |-> \E i \in 1..Len(obj.v) : obj.v[i] = PyStr(key)]
    [] obj.t = "str" -> [raises |-> FALSE, is |-> Contains(obj.v, key)]
    [] OTHER -> [raises |-> TRUE, is |-> FALSE]

\* for key in expected_keys: if key not in summary: summary[key] = []
RECURSIVE BackFill(_, _)
BackFill(obj, i) ==
  IF i > Len(expected_keys) THEN [raises |-> FALSE, msg |-> "", val |-> obj]
  ELSE LET has == KeyIn(expected_keys[i], obj) IN
    IF has.raises
    THEN [raises |-> TRUE, msg |-> "argument is not iterable", val |-> PyNone]
    ELSE IF has.is THEN BackFill(obj, i + 1)
    ELSE IF obj.t = "dict"
    THEN BackFill(PyDict(DictSet(obj.v, expected_keys[i], PyList(<<>>))), i + 1)
    ELSE [raises |-> TRUE, msg |-> "object does not support item assignment", val |-> PyNone]

ErrorItem(msg) == <<"Error generating summary: ">> \o msg

\* lines 129-167: the main response parsed, back-filled and returned, or the
\* exception the back-fill raises
ParseSummary(response_text) ==
  LET loaded == JsonLoads(CleanJson(JsonContent(response_text)))
      parsed_summary == IF loaded.ok THEN loaded.val ELSE SingleItemRecord(CouldNotParse)
  IN BackFill(parsed_summary, 1)

\* ParseSummary over the main responses of this model
ParsedSummaries == [m \in SummaryOutcomes |-> ParseSummary(m.text)]

\* generate_summary(text, document_info, readability_preference), given what the
\* classification call (m1) and the main call (m2) do if they are issued.
\* ret is the value returned, log the model calls issued, in order.
generate_summary(m1, m2) ==
  LET op == "generate_summary"
      c1 == ModelCall(op, "classify", m1)
      c2 == ModelCall(op, "main", m2)
      verification_result == VerificationResult(m1.text)
      filled == ParsedSummaries[m2]
  IN
  IF ~setup_gemini
  THEN [ret |-> SingleItemRecord(<<"API key not configured. Unable to generate summary.">>),
        log |-> <<>>]
  ELSE IF m1.raises
  THEN [ret |-> SingleItemRecord(ErrorItem(m1.text)), log |-> <<c1>>]
  ELSE IF ~IsAffirmative(verification_result)
  THEN [ret |-> SingleItemRecord(NotPolicyItem(verification_result)), log |-> <<c1>>]
  ELSE IF m2.raises
  THEN [ret |-> SingleItemRecord(ErrorItem(m2.text)), log |-> <<c1, c2>>]
  ELSE IF filled.raises
  THEN [ret |-> SingleItemRecord(ErrorItem(<<filled.msg>>)), log |-> <<c1, c2>>]
  ELSE [ret |-> filled.val, log |-> <<c1, c2>>]

\* a variant of answer_question that skips the classification call
answer_question_NoPreCheck(m1, m2) ==
  LET c2 == ModelCall("answer_question", "main", m2) IN
  IF ~setup_gemini
  THEN [ret |-> <<"API key not configured. Unable to answer questions.">>, log |-> <<>>]
  ELSE IF m2.raises
  THEN [ret |-> <<"Sorry, I couldn't process your question due to an error: ">> \o m2.text,
        log |-> <<c2>>]
  ELSE [ret |-> m2.text, log |-> <<c2>>]

\* answer_question(question, document_text, document_info, readability_preference)
answer_question(m1, m2) ==
  LET op == "answer_question"
      c1 == ModelCall(op, "classify", m1)
      c2 == ModelCall(op, "main", m2)
      verification_result == VerificationResult(m1.text)
  IN
  IF ~setup_gemini
  THEN [ret |-> <<"API key not configured. Unable to answer questions.">>, log |-> <<>>]
  ELSE IF m1.raises
  THEN [ret |-> <<"Sorry, I couldn't process your question due to an error: ">> \o m1.text,
        log |-> <<c1>>]
  ELSE IF ~IsAffirmative(verification_result)
  THEN [ret |-> NotPolicyAnswer(verification_result), log |-> <<c1>>]
  ELSE IF m2.raises
  THEN [ret |-> <<"Sorry, I couldn't process your question due to an error: ">> \o m2.text,
        log |-> <<c1, c2>>]
  ELSE [ret |-> m2.text, log |-> <<c1, c2>>]

\* ------------------------------------------------------------ document_processing.py

PdfType == "application/pdf"
DocxType == "application/vnd.openxmlformats-officedocument.wordprocessingml.document"
\* a variant of ImageTypes without JPEG images
ImageTypes_PngOnly == {"image/png", "image/jpg"}

ImageTypes == {"image/png", "image/jpeg", "image/jpg"}
TxtType == "text/plain"

\* the number of characters a token stands for
\* runs of 42, 43 and 44 lower-case letters
Letters42 == "<42 lower-case letters>"
Letters43 == "<43 lower-case letters>"
Letters44 == "<44 lower-case letters>"

TokLen(c) ==
  CASE c = "POLICY" -> 6
    [] c = Letters42 -> 42
    [] c = Letters43 -> 43
    [] c = Letters44 -> 44
    [] c = "Coverage" -> 8
    [] c = "includes" -> 8
    [] c = "collision" -> 9
    [] OTHER -> 1

\* c.isupper(): a cased character, and no lower-case one
TokIsUpper(c) == c \in {"POLICY"}
TokIsCased(c) ==
  c \in {"POLICY", "Coverage", "includes", "collision", Letters42, Letters43, Letters44}

RECURSIVE StrLen(_)
StrLen(s) == IF s = <<>> THEN 0 ELSE TokLen(Head(s)) + StrLen(Tail(s))

\* s.isupper()
IsUpper(s) ==
  /\ \E i \in 1..Len(s) : TokIsCased(s[i])
  /\ \A i \in 1..Len(s) : TokIsCased(s[i]) => TokIsUpper(s[i])

\* s.split(): the words of s
RECURSIVE Words(_)
Words(s) ==
  LET t == LStrip(s) IN
  IF t = <<>> THEN <<>>
  ELSE LET ends == {i \in 1..Len(t) : t[i] \in Whitespace}
           n == IF ends = {} THEN Len(t) + 1
                ELSE CHOOSE i \in ends : \A j \in ends : i <= j
       IN <<SubSeq(t, 1, n - 1)>> \o Words(SubSeq(t, n, Len(t)))

\* the header heuristic of one line
IsHeader(line) ==
  /\ StrLen(Strip(line)) < 50
  /\ \/ \E i \in 1..Len(Words(line)) : IsUpper(Words(line)[i])
     \/ IsUpper(line)

\* a variant of Headers that looks at every line of the page
RECURSIVE Headers_AllLines(_, _)
Headers_AllLines(lines, i) ==
  IF i > Len(lines) THEN <<>>
  ELSE (IF IsHeader(lines[i]) THEN <<Strip(lines[i])>> ELSE <<>>)
       \o Headers_AllLines(lines, i + 1)

RECURSIVE Headers(_, _)
Headers(lines, i) ==
  IF i > Len(lines) \/ i > 5 THEN <<>>
  ELSE (IF IsHeader(lines[i]) THEN <<Strip(lines[i])>> ELSE <<>>) \o Headers(lines, i + 1)

\* extract_text_from_pdf over the pages of an opened PDF: page i is the text
\* page.extract_text() gives, <<>> where it gives None
RECURSIVE PdfText(_, _)
PdfText(pages, i) ==
  IF i > Len(pages) THEN <<>>
  ELSE pages[i] \o <<NL, NL>> \o PdfText(pages, i + 1)

PageInfo(pages) ==
  [i \in 1..Len(pages) |->
     [text |-> pages[i], headers |-> Headers(Split(pages[i], <<NL>>), 1)]]

\* What the bytes of a file are: data.kind is the format they really have
\* ("pdf", "docx", "image", "text", or "invalid" for bytes no reader accepts),
\* data.body what a reader of that format finds in them (pages, paragraphs,
\* the recognised text, the decoded text; the last two as a one-element list).
Extracted(routine, text) ==
  [raises |-> FALSE, error |-> "", routine |-> routine, text |-> text]
ExtractRaises(routine, error) ==
  [raises |-> TRUE, error |-> error, routine |-> routine, text |-> <<>>]

extract_text_from_pdf(data) ==
  IF data.kind = "pdf" THEN Extracted("extract_text_from_pdf", PdfText(data.body, 1))
  ELSE ExtractRaises("extract_text_from_pdf", "ExtractionFailure")

RECURSIVE DocxText(_, _)
DocxText(paragraphs, i) ==
  IF i > Len(paragraphs) THEN <<>>
  ELSE paragraphs[i] \o <<NL>> \o DocxText(paragraphs, i + 1)

extract_text_from_docx(data) ==
  IF data.kind = "docx" THEN Extracted("extract_text_from_docx", DocxText(data.body, 1))
  ELSE ExtractRaises("extract_text_from_docx", "ExtractionFailure")

extract_text_from_image(data) ==
  IF data.kind = "image" THEN Extracted("extract_text_from_image", data.body[1])
  ELSE ExtractRaises("extract_text_from_image", "ExtractionFailure")

extract_text_from_txt(data) ==
  IF data.kind = "text" THEN Extracted("extract_text_from_txt", data.body[1])
  ELSE ExtractRaises("extract_text_from_txt", "DecodeError")

NoPageInfo == [present |-> FALSE, pages |-> <<>>]

\* extract_text(uploaded_file): raises is TRUE where the exception is re-raised;
\* otherwise text and document_info are the tuple returned
extract_text(file) ==
  LET file_type == file.type
      data == file.data
      info(page_info) ==
        PyDict([type |-> file_type, file_name |-> file.name,
                page_info |-> page_info])
      r == IF file_type = PdfType THEN extract_text_from_pdf(data)
           ELSE IF file_type = DocxType THEN extract_text_from_docx(data)
           ELSE IF file_type \in ImageTypes THEN extract_text_from_image(data)
           ELSE IF file_type = TxtType THEN extract_text_from_txt(data)
           ELSE ExtractRaises("none", "UnsupportedFormat")
  IN [raises |-> r.raises, error |-> r.error, routine |-> r.routine, text |-> r.text,
      document_info |->
        IF r.raises THEN PyNone
        ELSE IF file_type = PdfType
        THEN info([present |-> TRUE, pages |-> PageInfo(data.body)])
        ELSE info(NoPageInfo)]

\* ------------------------------------------------------------ readability.py

Sentence == <<"Coverage", SP, "includes", SP, "collision">>

\* textstat.flesch_reading_ease(text) on the texts of this model: the formula
\* is not bounded to [0, 100], and the library call may raise
flesch_reading_ease(text) ==
  CASE text = Sentence -> [raises |-> FALSE, value |-> 85]
    [] text = Sentence \o <<NL>> -> [raises |-> FALSE, value |-> 121]
    [] text = <<"POLICY", NL>> \o Sentence \o <<NL, NL>> -> [raises |-> FALSE, value |-> 0 - 12]
    [] text = <<"collision">> -> [raises |-> TRUE, value |-> 0]
    [] text = <<"includes">> -> [raises |-> FALSE, value |-> 51]
    [] text = <<"Coverage">> -> [raises |-> FALSE, value |-> 70]
    [] text = <<"Coverage", SP, "collision">> -> [raises |-> FALSE, value |-> 71]
    [] OTHER -> [raises |-> FALSE, value |-> 50]

Min(a, b) == IF a < b THEN a ELSE b
Max(a, b) == IF a > b THEN a ELSE b

\* a variant of calculate_readability_score that only clamps from below
calculate_readability_score_NoCeiling(text) ==
  IF text = <<>> \/ Strip(text) = <<>> THEN 0
  ELSE LET f == flesch_reading_ease(text) IN
       IF f.raises THEN 0 ELSE Max(0, f.value)

calculate_readability_score(text) ==
  IF text = <<>> \/ Strip(text) = <<>> THEN 0
  ELSE LET f == flesch_reading_ease(text) IN
       IF f.raises THEN 0 ELSE Max(0, Min(100, f.value))

\* ------------------------------------------------------------ the files

\* the files a user can choose: the declared media type is the client's, the
\* bytes are whatever the file holds
FileNames ==
  {"policy.pdf", "policy.docx", "scan.png", "scan.jpeg", "scan.jpg", "policy.txt",
   "empty.txt", "report.docx", "broken.pdf", "latin1.txt",
   "blank.pdf", "headers.pdf", "dense.txt", "plain.txt", "clear.txt"}

UploadedFile(name) ==
  LET f(type, kind, body) ==
        [name |-> name, type |-> type, data |-> [kind |-> kind, body |-> body]]
  IN CASE name = "policy.pdf" -> f(PdfType, "pdf", <<<<"POLICY", NL>> \o Sentence>>)
       [] name = "policy.docx" -> f(DocxType, "docx", <<Sentence>>)
       [] name = "scan.png" -> f("image/png", "image", <<Sentence>>)
       [] name = "scan.jpeg" -> f("image/jpeg", "image", <<<<"collision">>>>)
       [] name = "scan.jpg" -> f("image/jpg", "image", <<Sentence>>)
       [] name = "policy.txt" -> f(TxtType, "text", <<Sentence>>)
       [] name = "empty.txt" -> f(TxtType, "text", <<<<>>>>)
       [] name = "report.docx" -> f("application/octet-stream", "docx", <<Sentence>>)
       [] name = "broken.pdf" -> f(PdfType, "invalid", <<>>)
       [] name = "blank.pdf" -> f(PdfType, "pdf", <<<<>>>>)
       [] name = "dense.txt" -> f(TxtType, "text", <<<<"includes">>>>)
       [] name = "plain.txt" -> f(TxtType, "text", <<<<"Coverage">>>>)
       [] name = "clear.txt" -> f(TxtType, "text", <<<<"Coverage", SP, "collision">>>>)
       [] name = "headers.pdf" ->
            f(PdfType, "pdf",
              << <<SP, "POLICY", SP, NL,
                   "POLICY", SP, Letters43, NL,
                   "POLICY", SP, Letters42, NL>> \o Sentence \o
                 <<NL, "POLICY", SP, Letters44, NL,
                   "POLICY">>,
                 Sentence >>)
       [] OTHER -> f(TxtType, "invalid", <<>>)

\* extract_text over the files of this model
Extractions == [name \in FileNames |-> extract_text(UploadedFile(name))]

\* ------------------------------------------------------------ iteration

RECURSIVE SetToSeq(_)
SetToSeq(S) ==
  IF S = {} THEN <<>>
  ELSE LET x == CHOOSE y \in S : TRUE IN <<x>> \o SetToSeq(S \ {x})

\* for item in x: the items, or raises where x is not iterable
Iter(x) ==
  CASE x.t = "list" -> [raises |-> FALSE, items |-> x.v]
    [] x.t = "str" -> [raises |-> FALSE, items |-> [i \in 1..Len(x.v) |-> PyStr(<<x.v[i]>>)]]
    [] x.t = "dict" ->
         [raises |-> FALSE,
          items |-> LET ks == SetToSeq(DOMAIN x.v) IN [i \in 1..Len(ks) |-> PyStr(ks[i])]]
    [] OTHER -> [raises |-> TRUE, items |-> <<>>]

\* summary.get(key) and summary.get(key, [])
DictGet(d, key, default) == IF key \in DOMAIN d.v THEN d.v[key] ELSE default

\* ------------------------------------------------------------ pdf_export.py

\* f"{score:.1f}" of a whole-number score
OneDecimal(n) == <<ToString(n), ".0">>

\* a variant of Difficulty whose Moderate band ends below 70
Difficulty_Below70(score) ==
  IF score <= 50 THEN "Very Difficult"
  ELSE IF score < 70 THEN "Moderate"
  ELSE "Clear"

Difficulty(score) ==
  IF score <= 50 THEN "Very Difficult"
  ELSE IF score <= 70 THEN "Moderate"
  ELSE "Clear"

SectionTitles ==
  <<"Coverage Details", "Exclusions", "Deductibles", "Premiums", "Claims Process",
    "Unusual or Hidden Clauses">>

Mojibake == "<mojibake bullet>"

\* the lines one section adds to the report
SectionLines(title, items) ==
  IF ~Truthy(items) THEN [raises |-> FALSE, lines |-> <<>>]
  ELSE LET it == Iter(items) IN
    IF it.raises \/ \E i \in 1..Len(it.items) : it.items[i].t # "str"
    THEN [raises |-> TRUE, lines |-> <<>>]
    ELSE [raises |-> FALSE,
          lines |-> <<<<title>>>> \o
            [i \in 1..Len(it.items) |->
               <<"- ">> \o Replace(it.items[i].v, <<Mojibake>>, <<"-">>)]]

RECURSIVE Sections(_, _)
Sections(record, i) ==
  IF i > Len(expected_keys) THEN [raises |-> FALSE, lines |-> <<>>]
  ELSE LET one == SectionLines(SectionTitles[i], DictGet(record, expected_keys[i], PyList(<<>>)))
           rest == Sections(record, i + 1)
       IN IF one.raises \/ rest.raises THEN [raises |-> TRUE, lines |-> <<>>]
          ELSE [raises |-> FALSE, lines |-> one.lines \o rest.lines]

\* pdf.output(dest='S') writes the pages in Latin-1: it raises on any other
\* character
IsLatin1(line) == \A i \in 1..Len(line) : line[i] # RSQUO

Disclaimer == <<"Disclaimer: This summary was generated using AI technology and is intended as a guide only.">>

\* generate_pdf(summary, original_text, readability_score) at wall-clock time now:
\* the lines of the report, or raises
generate_pdf(record, original_text, score, now) ==
  IF score.t = "none" THEN [raises |-> TRUE, lines |-> <<>>]
  ELSE
    LET head == << <<"ClearInsurance - Policy Summary">>,
                   <<"Generated on: ", now>>,
                   <<"Readability Analysis">>,
                   <<"Readability Score: ">> \o OneDecimal(score.v)
                     \o <<" - ", Difficulty(score.v)>>,
                   <<"Policy Summary">> >>
        body == IF ~Truthy(record) THEN [raises |-> FALSE, lines |-> <<>>]
                ELSE IF record.t # "dict" THEN [raises |-> TRUE, lines |-> <<>>]
                ELSE Sections(record, 1)
    IN IF body.raises THEN [raises |-> TRUE, lines |-> <<>>]
       ELSE IF \E i \in 1..Len(body.lines) : ~IsLatin1(body.lines[i])
       THEN [raises |-> TRUE, lines |-> <<>>]
       ELSE [raises |-> FALSE, lines |-> head \o body.lines \o <<Disclaimer>>]

\* ------------------------------------------------------------ app.py

\* the longest Q&A history the model follows
MaxHistory == 2

\* st.session_state
VARIABLES extracted_text, document_info, summary, readability_score, qa_history,
          readability_preference
\* the widgets' values: st.file_uploader and the question st.text_input
VARIABLES uploaded_file, user_question
\* the steps of the latest script run, in order
VARIABLE log

vars == <<API_KEY, extracted_text, document_info, summary, readability_score, qa_history,
          readability_preference, uploaded_file, user_question, log>>

Write(key) == Ev("write", key, "", NoOutcome)
Scored(what) == Ev("score", what, "", NoOutcome)
Uncaught(where) == Ev("uncaught", where, "", NoOutcome)

\* lines 88-184: the summary view and the readability panel.  raises is TRUE
\* where an exception leaves the script run; log holds the scoring done.
SummaryViewRaises(s) ==
  /\ Truthy(s)
  /\ \/ s.t # "dict"
     \/ \E i \in 1..Len(expected_keys) :
          LET items == DictGet(s, expected_keys[i], PyNone) IN
          Truthy(items) /\ Iter(items).raises

\* ' '.join(items) raises
JoinRaises(items) ==
  \/ Iter(items).raises
  \/ \E i \in 1..Len(Iter(items).items) : Iter(items).items[i].t # "str"

\* lines 138-146: the label shown with the document's score
original_difficulty(original_score) ==
  IF original_score <= 50 THEN "Very Hard to Read"
  ELSE IF original_score <= 70 THEN "Moderate"
  ELSE "Clear"

\* line 149: the score line written under "Original Document"
Shown(original_score) ==
  Ev("show", "Original Document", original_difficulty(original_score),
     Returns(OneDecimal(original_score)))

Display(s, score) ==
  IF SummaryViewRaises(s) THEN [raises |-> TRUE, log |-> <<>>]
  ELSE IF score.t # "none" /\ Truthy(s) THEN
    IF \E k \in DOMAIN s.v : JoinRaises(s.v[k])
    THEN [raises |-> TRUE, log |-> <<Shown(score.v)>>]
    ELSE [raises |-> FALSE, log |-> <<Shown(score.v), Scored("summary")>>]
  ELSE [raises |-> FALSE, log |-> <<>>]

\* lines 51-75: the upload block, run whenever the uploader holds a file
\* a variant of Process in which a failed model call ends the try block before
\* the summary is stored
Process_NoRecovery(ext, gs) ==
  LET tried == <<Write("qa_history"), Ev("extract", ext.routine, ext.error, NoOutcome)>>
      scored == tried \o <<Write("extracted_text"), Write("document_info"),
                           Scored("document"), Write("readability_score")>> \o gs.log
  IN IF ext.raises
     THEN [text |-> extracted_text, info |-> document_info, score |-> readability_score,
           summary |-> summary, history |-> <<>>, log |-> tried]
     ELSE IF \E i \in 1..Len(gs.log) : gs.log[i].out.raises
     THEN [text |-> ext.text, info |-> ext.document_info,
           score |-> PyFloat(calculate_readability_score(ext.text)),
           summary |-> summary, history |-> <<>>, log |-> scored]
     ELSE [text |-> ext.text, info |-> ext.document_info,
           score |-> PyFloat(calculate_readability_score(ext.text)),
           summary |-> gs.ret, history |-> <<>>, log |-> scored \o <<Write("summary")>>]

\* the try block: ext is what extract_text gives for the file, gs what
\* generate_summary gives for its text
Process(ext, gs) ==
  LET tried == <<Write("qa_history"), Ev("extract", ext.routine, ext.error, NoOutcome)>>
  IN IF ext.raises
     THEN [text |-> extracted_text, info |-> document_info, score |-> readability_score,
           summary |-> summary, history |-> <<>>, log |-> tried]
     ELSE [text |-> ext.text, info |-> ext.document_info,
           score |-> PyFloat(calculate_readability_score(ext.text)),
           summary |-> gs.ret, history |-> <<>>,
           log |-> tried \o <<Write("extracted_text"), Write("document_info"),
                             Scored("document"), Write("readability_score")>>
                     \o gs.log \o <<Write("summary")>>]

UploadBlock(file, ms1, ms2) ==
  IF file.t = "none"
  THEN [text |-> extracted_text, info |-> document_info, score |-> readability_score,
        summary |-> summary, history |-> qa_history, log |-> <<>>]
  ELSE Process(Extractions[file.v.name], generate_summary(ms1, ms2))

\* The script after the sidebar: the main content, drawn from the session as
\* the upload block left it (up).
MainContent(up, question, button, mq1, mq2) ==
  LET disp == Display(up.summary, up.score)
      asked == question # <<>>
      aq == answer_question(mq1, mq2)
      pdf == generate_pdf(up.summary, up.text, up.score, Now)
      session(history, q, steps) ==
        [text |-> up.text, info |-> up.info, score |-> up.score, summary |-> up.summary,
         history |-> history, question |-> q, log |-> steps]
  IN IF up.text = <<>> THEN session(up.history, <<>>, up.log)
     ELSE IF disp.raises THEN session(up.history, <<>>, up.log \o disp.log \o <<Uncaught("display")>>)
     ELSE session(
       IF asked THEN Append(up.history, <<question, aq.ret>>) ELSE up.history,
       question,
       up.log \o disp.log
         \o (IF asked THEN aq.log \o <<Ev("append", "qa_history", "", NoOutcome)>> ELSE <<>>)
         \o (IF button = "Download as PDF"
             THEN <<Ev("generate_pdf", IF pdf.raises THEN "raised" ELSE "ok", "",
                       Returns(pdf.lines))>>
             ELSE <<>>))

\* One run of the script, top to bottom, with the widgets holding file,
\* question and preference, and button the button clicked ("" for none).
Script(file, question, preference, button, ms1, ms2, mq1, mq2) ==
  MainContent(UploadBlock(file, ms1, ms2), question, button, mq1, mq2)

\* The inputs a specification draws from: the files the user may choose, the
\* questions the user may ask, and what the model service may do on a
\* classification call, a main summary call and a main answering call.
SessionInputs ==
  [files |-> {"policy.pdf", "empty.txt", "broken.pdf"},
   questions |-> {<<"Am I covered for rental cars?">>},
   verdicts |-> VerdictOutcomes,
   summaries |-> {Returns(R_fenced), Returns(R_null), Raises(ServiceError)},
   answers |-> AnswerOutcomes]

UploadInputs ==
  [files |-> FileNames,
   questions |-> {},
   verdicts |-> VerdictOutcomes,
   summaries |-> SummaryOutcomes,
   answers |-> AnswerOutcomes]

\* the outcomes to consider for the calls a run can issue
SummaryVerdicts(in, file) ==
  IF file.t # "none" /\ ~Extractions[file.v.name].raises /\ setup_gemini
  THEN in.verdicts ELSE {NoOutcome}
SummaryMains(in, file, ms1) ==
  IF file.t # "none" /\ ~Extractions[file.v.name].raises /\ setup_gemini
     /\ ~ms1.raises /\ IsAffirmative(VerificationResult(ms1.text))
  THEN in.summaries ELSE {NoOutcome}
AnswerVerdicts(in, question) ==
  IF question # <<>> /\ setup_gemini THEN in.verdicts ELSE {NoOutcome}
AnswerMains(in, question, mq1) ==
  IF question # <<>> /\ setup_gemini /\ ~mq1.raises
     /\ IsAffirmative(VerificationResult(mq1.text))
  THEN in.answers ELSE {NoOutcome}

\* the session and the widgets after a run r of the script
Session(r, file, preference) ==
    /\ Len(r.history) <= MaxHistory
    /\ extracted_text' = r.text
    /\ document_info' = r.info
    /\ readability_score' = r.score
    /\ summary' = r.summary
    /\ qa_history' = r.history
    /\ readability_preference' = preference
    /\ uploaded_file' = file
    /\ user_question' = r.question
    /\ log' = r.log
    /\ UNCHANGED API_KEY

\* a user interaction reruns the script
Rerun(in, file, question, preference, button) ==
  \E ms1 \in SummaryVerdicts(in, file) : \E ms2 \in SummaryMains(in, file, ms1) :
  \E mq1 \in AnswerVerdicts(in, question) : \E mq2 \in AnswerMains(in, question, mq1) :
    Session(Script(file, question, preference, button, ms1, ms2, mq1, mq2),
            file, preference)

\* the question input and the export buttons were drawn by the latest run
MainRendered == extracted_text # <<>> /\ ~Display(summary, readability_score).raises

Init ==
  /\ API_KEY \in ApiKeys
  /\ extracted_text = <<>>
  /\ document_info = PyNone
  /\ summary = PyNone
  /\ readability_score = PyNone
  /\ qa_history = <<>>
  /\ readability_preference = "Easy (Elementary School Level)"
  /\ uploaded_file = PyNone
  /\ user_question = <<>>
  /\ log = <<>>

Upload(in, name) ==
  Rerun(in, [t |-> "file", v |-> UploadedFile(name)], user_question,
        readability_preference, "")

RemoveFile(in) ==
  /\ uploaded_file.t # "none"
  /\ Rerun(in, PyNone, user_question, readability_preference, "")

SelectPreference(in, p) ==
  /\ p # readability_preference
  /\ Rerun(in, uploaded_file, user_question, p, "")

Ask(in, q) ==
  /\ MainRendered
  /\ q # user_question
  /\ Rerun(in, uploaded_file, q, readability_preference, "")

DownloadAsPdf(in) ==
  /\ MainRendered
  /\ Rerun(in, uploaded_file, user_question, readability_preference, "Download as PDF")

SendToEmail(in) ==
  /\ MainRendered
  /\ Rerun(in, uploaded_file, user_question, readability_preference, "Send to Email")

\* a session: every interaction, over the session inputs
Next ==
  \/ \E name \in SessionInputs.files : Upload(SessionInputs, name)
  \/ RemoveFile(SessionInputs)
  \/ \E p \in Preferences : SelectPreference(SessionInputs, p)
  \/ \E q \in SessionInputs.questions \cup {<<>>} : Ask(SessionInputs, q)
  \/ DownloadAsPdf(SessionInputs)
  \/ SendToEmail(SessionInputs)

Spec == Init /\ [][Next]_vars

\* uploads only, over every file and every response of the model service
NextUpload == \E name \in UploadInputs.files : Upload(UploadInputs, name)

SpecUpload == Init /\ [][NextUpload]_vars

\* uploads and exports, over every file and every response of the model service
NextExport ==
  \/ \E name \in UploadInputs.files : Upload(UploadInputs, name)
  \/ DownloadAsPdf(UploadInputs)

SpecExport == Init /\ [][NextExport]_vars

\* ------------------------------------------------------------ observations

\* an event of the latest run
Logged(e) == \E i \in 1..Len(log) : log[i] = e
Wrote(key) == Logged(Write(key))

\* the model calls of one operation in the latest run, in order
CallsOf(op) == SelectSeq(log, LAMBDA e : e.ev = "call" /\ e.op = op)
AllCalls == SelectSeq(log, LAMBDA e : e.ev = "call")

\* the latest run called extract_text, and it returned / raised
ExtractionSucceeded == \E i \in 1..Len(log) : log[i].ev = "extract" /\ log[i].arg = ""
ExtractionFailed == \E i \in 1..Len(log) : log[i].ev = "extract" /\ log[i].arg # ""

\* xs is a prefix of ys
IsPrefix(xs, ys) == Len(xs) <= Len(ys) /\ \A i \in 1..Len(xs) : xs[i] = ys[i]

\* the step uploads a file other than the one the uploader held
UploadsOtherFile ==
  /\ uploaded_file'.t = "file"
  /\ uploaded_file.t = "file" => uploaded_file'.v.name # uploaded_file.v.name

\* the step keeps the uploader's file and is a question asked or cleared, a
\* change of the preference, or an export
ActsOnSameFile ==
  /\ uploaded_file.t = uploaded_file'.t
  /\ uploaded_file.t = "file" => uploaded_file'.v.name = uploaded_file.v.name
  /\ \/ user_question' # user_question
     \/ readability_preference' # readability_preference
     \/ \E i \in 1..Len(log') : log'[i].ev = "generate_pdf"

\* a record of exactly the six keys, each mapped to a list
IsSummaryRecord(s) ==
  /\ s.t = "dict"
  /\ DOMAIN s.v = ExpectedKeySet
  /\ \A k \in ExpectedKeySet : s.v[k].t = "list"

\* a six-key record whose only non-empty list is one coverage_details string
IsSingleItemRecord(s) ==
  /\ IsSummaryRecord(s)
  /\ Len(s.v[K_coverage].v) = 1
  /\ s.v[K_coverage].v[1].t = "str"
  /\ s.v[K_coverage].v[1].v # <<>>
  /\ \A k \in ExpectedKeySet \ {K_coverage} : s.v[k].v = <<>>

\* ------------------------------------------------------------ claims

\* C1 (as claimed; the code violates it): when a file other than the current
\* one is uploaded over a document already processed, the history is reset in
\* that action exactly if the text, the score and the summary are rewritten in
\* it too -- also when the extraction of the new file fails.
C1_ResetTogether ==
  [][(UploadsOtherFile /\ extracted_text # <<>>) =>
       (Wrote("qa_history")' <=>
          (Wrote("extracted_text")' /\ Wrote("readability_score")' /\ Wrote("summary")'))]_vars

\* C2 (as claimed; the code violates it): a question, a change of the
\* preference or an export on the same file leaves the old history a prefix of
\* the new one.
C2_AppendOnly ==
  [][ActsOnSameFile => IsPrefix(qa_history, qa_history')]_vars

\* C3 (as claimed; the code violates it): the summary generate_summary returned
\* is a record of exactly the six keys, each a list.
C3_SixKeys ==
  (Wrote("summary") /\ summary.t # "none") => IsSummaryRecord(summary)

\* the credential is set and not empty
KeyPresent == API_KEY.t = "str" /\ API_KEY.v # <<>>

\* what a classification call gave: an affirmative verdict, or a response that
\* does not affirm
Affirmative(out) == ~out.raises /\ StartsWith(Lower(Strip(out.text)), <<"yes">>)
NonAffirmative(out) == ~out.raises /\ ~StartsWith(Lower(Strip(out.text)), <<"yes">>)

\* the document type a non-affirmative response names: its words but "no:",
\* or no named type at all
DetectedType(text) ==
  IF \E i \in 1..Len(text) : text[i] = ":"
  THEN SelectSeq(Lower(text), LAMBDA c : c \notin Whitespace \cup {"no", ":"})
  ELSE <<"not an auto insurance policy">>

ShortCircuited(op) ==
  /\ CallsOf(op) # <<>>
  /\ CallsOf(op)[1].arg = "classify"
  /\ NonAffirmative(CallsOf(op)[1].out)

LastAnswer == qa_history[Len(qa_history)][2]

\* C4: when the classification response does not affirm an auto-insurance
\* policy, the operation issues that one model call only and returns a message
\* naming the detected type: a six-key record whose only item is that message,
\* or that message as the answer.
C4_NotPolicyShortCircuit ==
  /\ ShortCircuited("generate_summary") =>
       /\ Len(CallsOf("generate_summary")) = 1
       /\ IsSingleItemRecord(summary)
       /\ Contains(summary.v[K_coverage].v[1].v,
                   DetectedType(CallsOf("generate_summary")[1].out.text))
  /\ ShortCircuited("answer_question") =>
       /\ Len(CallsOf("answer_question")) = 1
       /\ qa_history # <<>>
       /\ LastAnswer # <<>>
       /\ Contains(LastAnswer, DetectedType(CallsOf("answer_question")[1].out.text))

C4_Witness ==
  /\ ShortCircuited("generate_summary")
  /\ ShortCircuited("answer_question")
  /\ DetectedType(CallsOf("generate_summary")[1].out.text) = <<"lease agreement">>
  /\ DetectedType(CallsOf("answer_question")[1].out.text) = <<"lease agreement">>

\* C5: without the credential no model call is ever issued, the summary stored
\* is the six-key record with one explanatory item, and every answer is the
\* explanatory string.
C5_NoKeyNoCalls ==
  ~KeyPresent =>
    /\ AllCalls = <<>>
    /\ summary.t # "none" =>
         /\ IsSingleItemRecord(summary)
         /\ summary.v[K_coverage].v[1].v =
              <<"API key not configured. Unable to generate summary.">>
    /\ \A i \in 1..Len(qa_history) :
         qa_history[i][2] = <<"API key not configured. Unable to answer questions.">>

C5_Witness ==
  /\ ~KeyPresent
  /\ Wrote("summary")
  /\ Logged(Ev("append", "qa_history", "", NoOutcome))

\* a model call of the operation raised in the latest run
CallRaised(op) == \E i \in 1..Len(CallsOf(op)) : CallsOf(op)[i].out.raises

\* a failed model call is turned into a degraded result, and a run whose
\* extraction succeeded ends with the score and the summary stored
C6_Recovery ==
  /\ CallRaised("generate_summary") =>
       /\ Wrote("summary")
       /\ IsSingleItemRecord(summary)
       /\ Contains(summary.v[K_coverage].v[1].v, <<ServiceError>>)
  /\ CallRaised("answer_question") =>
       /\ qa_history # <<>>
       /\ Contains(LastAnswer, <<ServiceError>>)
  /\ ExtractionSucceeded => (readability_score.t # "none" /\ summary.t # "none")

\* C6 (as claimed): ... and the export is on offer after every such run.
C6_ExportAlwaysOffered ==
  /\ C6_Recovery
  /\ (ExtractionSucceeded /\ CallRaised("generate_summary")) => MainRendered

\* C6 (amended): a failed model call never leaves generate_summary or
\* answer_question as an exception but as a degraded result; a run whose
\* extraction succeeded ends with the score and the summary stored, and with
\* the export on offer if the extracted text is not empty.
C6_ExportOfferedForText ==
  /\ C6_Recovery
  /\ (ExtractionSucceeded /\ CallRaised("generate_summary") /\ extracted_text # <<>>)
       => MainRendered

C6_Witness ==
  /\ ExtractionSucceeded
  /\ CallRaised("generate_summary")
  /\ CallRaised("answer_question")
  /\ MainRendered

\* C7: an operation issues at most two model calls, the classification first
\* and the main call only after that classification affirmed; no call is
\* issued twice.
C7_TwoStepProtocol ==
  \A op \in {"generate_summary", "answer_question"} :
    LET cs == CallsOf(op) IN
    /\ Len(cs) <= 2
    /\ Len(cs) >= 1 => cs[1].arg = "classify"
    /\ Len(cs) = 2 => (cs[2].arg = "main" /\ Affirmative(cs[1].out))

C7_Witness ==
  /\ Len(CallsOf("generate_summary")) = 2
  /\ CallsOf("generate_summary")[2].out.raises
  /\ Len(CallsOf("answer_question")) = 2

\* the extraction events of the latest run
Extracts == SelectSeq(log, LAMBDA e : e.ev = "extract")

\* C8 (as claimed): once the summary of the uploaded document is stored, a
\* question, an export or a change of the preference on that document runs no
\* extraction, requests no summary from the model, and leaves the stored text
\* and summary as they were.
C8_OncePerDocument ==
  [][(ActsOnSameFile /\ uploaded_file.t = "file" /\ Truthy(summary)) =>
       /\ Extracts' = <<>>
       /\ CallsOf("generate_summary")' = <<>>
       /\ extracted_text' = extracted_text
       /\ summary' = summary]_vars

\* the routine that reads a media type
RoutineFor(type) ==
  CASE type = PdfType -> "extract_text_from_pdf"
    [] type = DocxType -> "extract_text_from_docx"
    [] type = TxtType -> "extract_text_from_txt"
    [] OTHER -> "extract_text_from_image"

\* extract_text reads a file of one of the types with the routine of that type,
\* and raises UnsupportedFormat, giving no text and no metadata, for any other
Dispatches(types) ==
  (uploaded_file.t = "file" /\ Extracts # <<>>) =>
    LET e == Extracts[1] IN
    IF uploaded_file.v.type \in types
    THEN e.op = RoutineFor(uploaded_file.v.type) /\ e.arg # "UnsupportedFormat"
    ELSE /\ e.op = "none"
         /\ e.arg = "UnsupportedFormat"
         /\ ~Wrote("extracted_text")
         /\ ~Wrote("document_info")

\* C9 (as claimed): the supported media types are PDF, the word-processing
\* type, plain text, PNG and JPEG; every other type is UnsupportedFormat.
C9_FiveTypes ==
  Dispatches({PdfType, DocxType, TxtType, "image/png", "image/jpeg"})

\* C9 (amended): extract_text raises UnsupportedFormat, with no text and no
\* metadata, for every media type other than PDF, the word-processing type,
\* plain text, image/png, image/jpeg and image/jpg, and reads each of those
\* six with the one routine of its kind.
C9_SixTypes ==
  Dispatches({PdfType, DocxType, TxtType, "image/png", "image/jpeg", "image/jpg"})

C9_Witness ==
  /\ uploaded_file.t = "file"
  /\ uploaded_file.v.type = "application/octet-stream"
  /\ Logged(Ev("extract", "none", "UnsupportedFormat", NoOutcome))
  /\ extracted_text # <<>>

\* C10 (as claimed): an upload whose extraction raised scores no document,
\* issues no model call and writes none of extracted text, document info,
\* score and summary in the rest of that run.
C10_ExtractionErrorFatal ==
  [][(UploadsOtherFile /\ ExtractionFailed') =>
       /\ ~Logged(Scored("document"))'
       /\ ~Wrote("extracted_text")'
       /\ ~Wrote("document_info")'
       /\ ~Wrote("readability_score")'
       /\ ~Wrote("summary")'
       /\ AllCalls' = <<>>]_vars

\* every character of the text is whitespace (the empty text included)
IsBlank(text) == \A i \in 1..Len(text) : text[i] \in Whitespace

\* C11: the score stored for a document is in [0,100]: 0 for an empty or
\* whitespace-only text, 0 when the formula raises, and otherwise the formula's
\* value, with values below 0 stored as 0 and values above 100 as 100.
C11_ScoreInRange ==
  Wrote("readability_score") =>
    LET formula == flesch_reading_ease(extracted_text)
        stored == readability_score.v
    IN /\ readability_score.t = "float"
       /\ stored >= 0 /\ stored <= 100
       /\ IsBlank(extracted_text) => stored = 0
       /\ (~IsBlank(extracted_text) /\ formula.raises) => stored = 0
       /\ (~IsBlank(extracted_text) /\ ~formula.raises) =>
            /\ formula.value < 0 => stored = 0
            /\ formula.value > 100 => stored = 100
            /\ (formula.value >= 0 /\ formula.value <= 100) => stored = formula.value

C11_Witness ==
  /\ Wrote("readability_score")
  /\ ~IsBlank(extracted_text)
  /\ ~flesch_reading_ease(extracted_text).raises
  /\ flesch_reading_ease(extracted_text).value > 100
  /\ readability_score.v = 100

\* a six-key record of lists of statements
IsStatementRecord(s) ==
  /\ IsSummaryRecord(s)
  /\ \A k \in DOMAIN s.v : \A i \in 1..Len(s.v[k].v) : s.v[k].v[i].t = "str"

\* the reports generated in the latest run
Reports == SelectSeq(log, LAMBDA e : e.ev = "generate_pdf")

\* the section lines a report is to hold for a record: for each key with a
\* non-empty list, in the fixed order, its title and one bullet per item
RECURSIVE ExpectedSections(_, _)
ExpectedSections(rec, i) ==
  IF i > Len(expected_keys) THEN <<>>
  ELSE LET items == rec.v[expected_keys[i]].v IN
       (IF items = <<>> THEN <<>>
        ELSE <<<<SectionTitles[i]>>>> \o [j \in 1..Len(items) |-> <<"- ">> \o items[j].v])
       \o ExpectedSections(rec, i + 1)

\* C12 (as claimed): for every summary record the export gives a report with
\* the title, the timestamp, the readability line, then for each key with a
\* non-empty list, in the fixed order, its header and one bullet per item, and
\* the disclaimer last.
C12_ReportSections ==
  (Reports # <<>> /\ IsStatementRecord(summary)) =>
    LET lines == Reports[1].out.text IN
    /\ Reports[1].op = "ok"
    /\ Len(lines) >= 6
    /\ lines[1] = <<"ClearInsurance - Policy Summary">>
    /\ lines[2][1] = "Generated on: "
    /\ lines[4][1] = "Readability Score: "
    /\ lines[Len(lines)] = Disclaimer
    /\ SubSeq(lines, 6, Len(lines) - 1) = ExpectedSections(summary, 1)

\* the main summary call of the latest run returned this response
MainResponse == CallsOf("generate_summary")[2].out.text
MainReturned ==
  Len(CallsOf("generate_summary")) = 2 /\ ~CallsOf("generate_summary")[2].out.raises

\* what json.loads gives for the cleaned content of a response
Loaded(text) == JsonLoads(CleanJson(JsonContent(text)))

\* C13 (as claimed): when the main response is not JSON, or is JSON but not an
\* object, the summary stored is a six-key record with exactly one
\* coverage_details item and five empty lists.
C13_ParseFailureDegrades ==
  (MainReturned /\ (~Loaded(MainResponse).ok \/ Loaded(MainResponse).val.t # "dict")) =>
    (Wrote("summary") /\ IsSingleItemRecord(summary))

\* the pages of the stored document info of a PDF
Pages == document_info.v.page_info.pages

\* the trimmed lines, among the first five of a page, of at most limit
\* characters that hold an upper-case word or are upper-case as a whole
HeadersUpTo(page, limit) ==
  LET lines == Split(page, <<NL>>)
      first == SubSeq(lines, 1, Min(5, Len(lines)))
      picked == SelectSeq(first, LAMBDA l :
                  /\ StrLen(Strip(l)) <= limit
                  /\ \/ \E i \in 1..Len(Words(l)) : IsUpper(Words(l)[i])
                     \/ IsUpper(l))
  IN [i \in 1..Len(picked) |-> Strip(picked[i])]

PdfStored ==
  /\ Wrote("document_info")
  /\ document_info.t = "dict"
  /\ document_info.v.type = PdfType

\* C14 (as claimed): the headers of a page are the trimmed lines, among its
\* first five, that are at most 50 characters long and hold an upper-case word
\* or are upper-case as a whole.
C14_HeadersAtMost50 ==
  PdfStored => \A i \in 1..Len(Pages) : Pages[i].headers = HeadersUpTo(Pages[i].text, 50)

\* C14 (amended): the headers of a page are, in order and trimmed, the lines
\* among its first five that are fewer than 50 characters long once trimmed and
\* hold an upper-case word or are upper-case as a whole; later lines are never
\* candidates, and a page without such a line has no header.
C14_HeadersBelow50 ==
  PdfStored => \A i \in 1..Len(Pages) : Pages[i].headers = HeadersUpTo(Pages[i].text, 49)

C14_Witness ==
  /\ PdfStored
  /\ Len(Pages) = 2
  /\ Pages[1].headers = << <<"POLICY">>, <<"POLICY", SP, Letters42>> >>
  /\ Len(Split(Pages[1].text, <<NL>>)) = 6
  /\ Pages[2].headers = <<>>

\* the band a label stands for
Band(label) ==
  CASE label \in {"Very Difficult", "Very Hard to Read"} -> "hardest"
    [] label = "Moderate" -> "moderate"
    [] label = "Clear" -> "clear"
    [] OTHER -> "none"

\* the band of a score
BandOf(n) == IF n <= 50 THEN "hardest" ELSE IF n <= 70 THEN "moderate" ELSE "clear"

\* the readability line of the report generated in the latest run
ReportScoreLine == Reports[1].out.text[4]

\* the score lines shown on screen in the latest run
ShownScores == SelectSeq(log, LAMBDA e : e.ev = "show")

\* C15: the report gives the score with one decimal and the label of its band
\* (up to 50 the hardest, above 50 and up to 70 Moderate, above 70 Clear), and
\* the label shown on screen for that score is of the same band.
C15_LabelBands ==
  (Reports # <<>> /\ Reports[1].op = "ok") =>
    /\ SubSeq(ReportScoreLine, 2, 3) = <<ToString(readability_score.v), ".0">>
    /\ Band(ReportScoreLine[5]) = BandOf(readability_score.v)
    /\ ReportScoreLine[5] \in {"Very Difficult", "Moderate", "Clear"}
    /\ ShownScores # <<>>
    /\ ShownScores[1].out.text = <<ToString(readability_score.v), ".0">>
    /\ Band(ShownScores[1].arg) = Band(ReportScoreLine[5])

C15_Witness ==
  /\ Reports # <<>>
  /\ Reports[1].op = "ok"
  /\ readability_score.v = 85
  /\ ReportScoreLine = <<"Readability Score: ", "85", ".0", " - ", "Clear">>
  /\ ShownScores[1].arg = "Clear"

\* what the model gave: the response without its fence, read as JSON
Given(text) == JsonLoads(JsonContent(text))

\* C16 (as claimed): when the main response is a well-formed JSON object, bare
\* or fenced, the summary stored holds, for every key of that object, the value
\* exactly as the model gave it, escape sequences included.
C16_CleaningPreserves ==
  (MainReturned /\ Given(MainResponse).ok /\ Given(MainResponse).val.t = "dict") =>
    /\ Wrote("summary")
    /\ summary.t = "dict"
    /\ \A k \in DOMAIN Given(MainResponse).val.v :
         /\ k \in DOMAIN summary.v
         /\ summary.v[k] = Given(MainResponse).val.v[k]

\* the step is an export or a change of the preference: the uploader and the
\* question box are left as they were
ExportsOrChangesPreference ==
  /\ uploaded_file' = uploaded_file
  /\ user_question' = user_question
  /\ \/ readability_preference' # readability_preference
     \/ \E i \in 1..Len(log') : log'[i].ev = "generate_pdf"

\* C17 (as claimed): an export or a change of the preference leaves the Q&A
\* history as it was and issues no question-answering model call.
C17_ExportLeavesHistory ==
  [][ExportsOrChangesPreference =>
       /\ CallsOf("answer_question")' = <<>>
       /\ qa_history' = qa_history]_vars

\* C18: whenever the stored extracted text is not empty, the readability score
\* and the summary are set, and so they are in every run that calls
\* generate_pdf.
C18_ScoreAndSummarySet ==
  /\ extracted_text # <<>> => (readability_score.t # "none" /\ summary.t # "none")
  /\ Reports # <<>> =>
       (extracted_text # <<>> /\ readability_score.t # "none" /\ summary.t # "none")

C18_Witness ==
  /\ Reports # <<>>
  /\ extracted_text # <<>>
  /\ CallRaised("generate_summary")
  /\ readability_score.t = "float"
  /\ IsSingleItemRecord(summary)

====
